---- MODULE Spec2Model ----
(***************************************************************************)
(* A model of the valrep sweep: ParameterSpaceModifier.generate expands    *)
(* the parameter space, JobNameModifier.modify names each point, and the   *)
(* four steps slha -> madgraph -> delphes_hepmc -> cutlang run for each    *)
(* point over one shared filesystem.                                       *)
(*                                                                         *)
(* Numbers that are formatted into names are kept as decimal digit         *)
(* sequences (most significant digit first), so that values with more      *)
(* significant digits than the "%.10g" rendering keeps can be written      *)
(* down.  Python strings that the code takes apart are sequences of        *)
(* one-character strings and are joined into a string at the end.          *)
(***************************************************************************)
EXTENDS Integers, Sequences, FiniteSets, TLC

(***************************************************************************)
(* Bounds of the exploration.                                              *)
(***************************************************************************)
\* how many calls of a step's run a behaviour of one point makes
MaxCalls == 8
\* how many calls of a step's run a behaviour of a sweep of several points makes
MaxSweepCalls == 10
\* how many parameters a parameter space given to generate alone declares
MaxParams == 2
\* the largest min, max or value of an entry of such a parameter space
MaxValue == 3
\* how many tokens a formula given to evaluate_formula has
MaxTokens == 3
\* how many entries the steps folder has
MaxLocations == 2

(***************************************************************************)
(* Program constants.                                                      *)
(***************************************************************************)
\* modifiers.py: f"{value:.10g}"
SigDigits == 10
\* madgraph/step.py: os.path.getsize(file_path) > 1024
MinEventBytes == 1024

(***************************************************************************)
(* Decimal digit sequences.                                                *)
(***************************************************************************)
DigitChars == <<"0", "1", "2", "3", "4", "5", "6", "7", "8", "9">>

RECURSIVE DigitsOf(_)
DigitsOf(n) == IF n < 10 THEN <<n>> ELSE DigitsOf(n \div 10) \o <<n % 10>>

RECURSIVE ValueOf(_)
\* the number that a digit sequence writes
ValueOf(d) == IF d = <<>> THEN 0 ELSE 10 * ValueOf(SubSeq(d, 1, Len(d) - 1)) + d[Len(d)]

\* the characters of a digit sequence
CharsOf(d) == [i \in 1..Len(d) |-> DigitChars[d[i] + 1]]

RECURSIVE AddSmall(_, _)
AddSmall(d, n) ==
    IF n = 0 THEN d
    ELSE IF d = <<>> THEN DigitsOf(n)
    ELSE LET t == d[Len(d)] + n
         IN  AddSmall(SubSeq(d, 1, Len(d) - 1), t \div 10) \o <<t % 10>>

RECURSIVE LexLE(_, _)
LexLE(a, b) ==
    IF a = <<>> THEN TRUE
    ELSE IF Head(a) # Head(b) THEN Head(a) < Head(b)
    ELSE LexLE(Tail(a), Tail(b))

\* a <= b for canonical digit sequences (no leading zero)
DigitsLE(a, b) == Len(a) < Len(b) \/ (Len(a) = Len(b) /\ LexLE(a, b))

RECURSIVE RStripZero(_)
RStripZero(s) ==
    IF s # <<>> /\ s[Len(s)] = "0" THEN RStripZero(SubSeq(s, 1, Len(s) - 1))
    ELSE s

RECURSIVE Join(_)
Join(s) == IF s = <<>> THEN "" ELSE Head(s) \o Join(Tail(s))

RECURSIVE JoinWith(_, _)
JoinWith(sep, parts) ==
    IF parts = <<>> THEN ""
    ELSE IF Len(parts) = 1 THEN parts[1]
    ELSE parts[1] \o sep \o JoinWith(sep, Tail(parts))

(***************************************************************************)
(* modifiers.py: format_float_to_str.                                      *)
(***************************************************************************)
\* f"{value:.10g}" for a non-negative integer-valued float given by its
\* digits: fixed notation while the value has at most SigDigits digits,
\* else a mantissa rounded half-to-even to SigDigits digits, with trailing
\* zeros removed, and an exponent.
FormatG(d) ==
    IF Len(d) <= SigDigits THEN CharsOf(d)
    ELSE LET m      == SubSeq(d, 1, SigDigits)
             rest   == SubSeq(d, SigDigits + 1, Len(d))
             sticky == \E i \in 2..Len(rest) : rest[i] # 0
             up     == \/ rest[1] > 5
                       \/ rest[1] = 5 /\ (sticky \/ m[SigDigits] % 2 = 1)
             r      == IF up THEN AddSmall(m, 1) ELSE m
             carry  == Len(r) > SigDigits
             mant   == RStripZero(CharsOf(SubSeq(r, 1, SigDigits)))
             ex     == IF carry THEN Len(d) ELSE Len(d) - 1
             frac   == IF Len(mant) > 1 THEN <<".">> \o Tail(mant) ELSE <<>>
         IN  <<mant[1]>> \o frac \o <<"e", "+">> \o CharsOf(DigitsOf(ex))

format_float_to_str(value) ==
    LET s   == FormatG(value)
        dot == {i \in 1..Len(s) : s[i] = "."}
    IN  IF dot # {}
        THEN LET i       == CHOOSE j \in dot : TRUE
                 integer == SubSeq(s, 1, i - 1)
                 rest    == RStripZero(SubSeq(s, i + 1, Len(s)))
                 decimal == IF rest = <<>> THEN <<"0">> ELSE rest
             IN  Join(integer) \o "p" \o Join(decimal)
        ELSE Join(s) \o "p0"

(***************************************************************************)
(* Python dict access.                                                     *)
(***************************************************************************)
Get(d, k, default) == IF k \in DOMAIN d THEN d[k] ELSE default

\* d with key k set to v (d.copy(); d[k] = v)
With(d, k, v) == [x \in DOMAIN d \cup {k} |-> IF x = k THEN v ELSE d[x]]

(***************************************************************************)
(* modifiers.py: ParameterSpaceModifier.generate.                          *)
(* A parameter space is a sequence of <<name, entry>> pairs in declaration *)
(* order; an entry is a dict with the keys it was written with.            *)
(***************************************************************************)
RECURSIVE PyRangeExclusive(_, _, _)
\* range(min, max, step): the upper end left out
PyRangeExclusive(lo, hi, step) ==
    IF DigitsLE(lo, hi) /\ lo # hi
    THEN <<lo>> \o PyRangeExclusive(AddSmall(lo, step), hi, step)
    ELSE <<>>

RECURSIVE PyRange(_, _, _)
\* range(min, max + 1, step) for step > 0
PyRange(lo, hi, step) ==
    IF DigitsLE(lo, hi) THEN <<lo>> \o PyRange(AddSmall(lo, step), hi, step)
    ELSE <<>>

IsRangeEntry(p) == "min" \in DOMAIN p /\ "max" \in DOMAIN p /\ "step" \in DOMAIN p

EntryOk(p) == IsRangeEntry(p) \/ "value" \in DOMAIN p

EntryValues(p) ==
    IF IsRangeEntry(p) THEN PyRange(p["min"], p["max"], p["step"])
    ELSE <<p["value"]>>

RECURSIVE ProductFirstFastest(_)
\* a product in which the first range varies fastest
ProductFirstFastest(ranges) ==
    IF ranges = <<>> THEN << <<>> >>
    ELSE LET rest  == ProductFirstFastest(Tail(ranges))
             first == Head(ranges)
             n     == Len(first)
         IN  [i \in 1..(n * Len(rest)) |->
                 <<first[((i - 1) % n) + 1]>> \o rest[((i - 1) \div n) + 1]]

RECURSIVE Product(_)
\* itertools.product(*ranges): the last range varies fastest
Product(ranges) ==
    IF ranges = <<>> THEN << <<>> >>
    ELSE LET rest  == Product(Tail(ranges))
             first == Head(ranges)
             n     == Len(rest)
         IN  [i \in 1..(Len(first) * n) |->
                 <<first[((i - 1) \div n) + 1]>> \o rest[((i - 1) % n) + 1]]

\* the configs that generate(**config) yields, in order
GenerateAll(config) ==
    LET param_space == Get(config, "parameter_space", <<>>)
        ranges      == [i \in 1..Len(param_space) |-> EntryValues(param_space[i][2])]
        combos      == Product(ranges)
    IN  [n \in 1..Len(combos) |->
            With(config, "parameter_space",
                 [i \in 1..Len(param_space) |->
                     <<param_space[i][1], [value |-> combos[n][i]]>>])]

GenerateOk(config) ==
    LET param_space == Get(config, "parameter_space", <<>>)
    IN  \A i \in 1..Len(param_space) : EntryOk(param_space[i][2])

\* an error that names the first parameter of the space
FirstParameter(config) == Get(config, "parameter_space", <<>>)[1][1]

\* the parameter that the ValueError of generate names: the first one, in
\* declaration order, whose entry has neither shape
BadParameter(config) ==
    LET param_space == Get(config, "parameter_space", <<>>)
        bad == {i \in 1..Len(param_space) : ~EntryOk(param_space[i][2])}
    IN  param_space[CHOOSE i \in bad : \A j \in bad : i <= j][1]

(***************************************************************************)
(* modifiers.py: JobNameModifier.modify.                                   *)
(***************************************************************************)
JobName(config) ==
    LET topology == Get(config, "topology", "unknown")
        combo    == Get(config, "parameter_space", <<>>)
        param_values_list ==
            [i \in 1..Len(combo) |-> format_float_to_str(combo[i][2]["value"])]
    IN  topology \o "." \o JoinWith("_", param_values_list) \o "."
            \o format_float_to_str(config["energy"])

modify(config) == With(config, "job_name", JobName(config))


(***************************************************************************)
(* modifiers.py: evaluate_formula.                                         *)
(* A Python value is a record tagged with its type: a number is the        *)
(* fraction n/d in lowest terms, a string is its sequence of tokens or of  *)
(* characters, a raised exception is a value that every operation passes   *)
(* on.  A formula is the string of its tokens joined by single blanks.     *)
(***************************************************************************)
RECURSIVE GCD(_, _)
GCD(a, b) == IF b = 0 THEN a ELSE GCD(b, a % b)

Abs(n) == IF n < 0 THEN -n ELSE n

PyInt(n) == [py |-> "int", n |-> n, d |-> 1]

PyBool(b) == [py |-> "bool", n |-> IF b THEN 1 ELSE 0, d |-> 1]

\* the float n/d, d # 0, in lowest terms
PyFloat(n, d) ==
    LET g == GCD(Abs(n), Abs(d))
        sg == IF d < 0 THEN -1 ELSE 1
    IN  [py |-> "float", n |-> sg * (n \div g), d |-> sg * (d \div g)]

\* the empty tuple ()
PyTuple == [py |-> "tuple"]

PyNone == [py |-> "none"]

PyStr(s) == [py |-> "str", s |-> s]

PyDict(items) == [py |-> "dict", items |-> items]

Raised(type) == [py |-> "raise", type |-> type]

IsNum(v) == v.py \in {"int", "bool", "float"}

\* the type of the result of arithmetic on two numbers
NumType(a, b) == IF a.py = "float" \/ b.py = "float" THEN "float" ELSE "int"

Num(type, n, d) == IF type = "float" THEN PyFloat(n, d) ELSE PyInt(n)

RECURSIVE IntPow(_, _)
IntPow(b, e) == IF e = 0 THEN 1 ELSE b * IntPow(b, e - 1)

\* a ** b for numbers with a whole exponent
Pow(a, b) ==
    CASE b.d = 1 /\ b.n >= 0 -> Num(NumType(a, b), IntPow(a.n, b.n), IntPow(a.d, b.n))
      [] b.d = 1 /\ b.n < 0 /\ a.n = 0 -> Raised("ZeroDivisionError")
      [] b.d = 1 /\ b.n < 0 /\ a.n # 0 -> PyFloat(IntPow(a.d, -b.n), IntPow(a.n, -b.n))

\* a op b
BinOp(op, a, b) ==
    IF a.py = "raise" THEN a
    ELSE IF b.py = "raise" THEN b
    ELSE IF IsNum(a) /\ IsNum(b) THEN
        CASE op = "+" -> Num(NumType(a, b), a.n * b.d + b.n * a.d, a.d * b.d)
          [] op = "-" -> Num(NumType(a, b), a.n * b.d - b.n * a.d, a.d * b.d)
          [] op = "*" -> Num(NumType(a, b), a.n * b.n, a.d * b.d)
          [] op = "/" -> IF b.n = 0 THEN Raised("ZeroDivisionError")
                         ELSE PyFloat(a.n * b.d, a.d * b.n)
          [] op = "**" -> Pow(a, b)
    ELSE IF op = "+" /\ a.py = "tuple" /\ b.py = "tuple" THEN PyTuple
    ELSE IF op = "*" /\ a.py = "tuple" /\ b.py \in {"int", "bool"} THEN PyTuple
    ELSE IF op = "*" /\ b.py = "tuple" /\ a.py \in {"int", "bool"} THEN PyTuple
    ELSE Raised("TypeError")

\* -a, +a
UnaryOp(op, a) ==
    IF a.py = "raise" THEN a
    ELSE IF ~IsNum(a) THEN Raised("TypeError")
    ELSE Num(NumType(a, a), IF op = "-" THEN -a.n ELSE a.n, a.d)

\* a < b
Less(a, b) ==
    IF a.py = "raise" THEN a
    ELSE IF b.py = "raise" THEN b
    ELSE IF IsNum(a) /\ IsNum(b) THEN PyBool(a.n * b.d < b.n * a.d)
    ELSE IF a.py = "tuple" /\ b.py = "tuple" THEN PyBool(FALSE)
    ELSE Raised("TypeError")

\* a.name: numbers have the attribute real
Attribute(a, name) ==
    IF a.py = "raise" THEN a
    ELSE IF IsNum(a) /\ name = "real" THEN Num(NumType(a, a), a.n, a.d)
    ELSE Raised("AttributeError")

\* a(args): no value of an expression is callable
CallValue(a, args) ==
    IF a.py = "raise" THEN a
    ELSE IF \E i \in 1..Len(args) : args[i].py = "raise"
    THEN args[CHOOSE i \in 1..Len(args) : args[i].py = "raise"]
    ELSE Raised("TypeError")

\* bool(a)
Truthy(a) == IsNum(a) /\ a.n # 0

\* v[key]
Subscript(v, key) ==
    IF v.py = "dict"
    THEN IF key \in DOMAIN v.items THEN v.items[key] ELSE Raised("KeyError")
    ELSE Raised("TypeError")

DigitValue == [c \in {"0", "1", "2", "3", "4", "5", "6", "7", "8", "9"} |->
                 CHOOSE n \in 0..9 : DigitChars[n + 1] = c]

RECURSIVE ParseDigits(_)
ParseDigits(s) ==
    IF s = <<>> THEN 0 ELSE 10 * ParseDigits(SubSeq(s, 1, Len(s) - 1)) + DigitValue[s[Len(s)]]

\* float(v)
ToFloat(v) ==
    CASE v.py = "raise" -> v
      [] IsNum(v) -> PyFloat(v.n, v.d)
      [] v.py = "str" ->
            IF v.s # <<>> /\ \A i \in 1..Len(v.s) : v.s[i] \in DOMAIN DigitValue
            THEN PyFloat(ParseDigits(v.s), 1)
            ELSE Raised("ValueError")
      [] OTHER -> Raised("TypeError")

(* The tokens of an expression and its grammar:                            *)
(*   test       ::= comparison ['if' comparison 'else' test]               *)
(*   comparison ::= arith ('<' arith)*                                     *)
(*   arith      ::= term (('+' | '-') term)*                               *)
(*   term       ::= factor (('*' | '/') factor)*                           *)
(*   factor     ::= ('+' | '-') factor | power                             *)
(*   power      ::= primary ['**' factor]                                  *)
(*   primary    ::= atom ('.' NAME | '(' [test] ')')*                      *)
(*   atom       ::= NAME | NUMBER | '(' [test] ')'                         *)
(* A syntax tree is a tuple that starts with the kind of its node.         *)
NameTokens == {"M", "B", "real"}

NumberTokens == {"0", "4"}

OtherTokens == {"+", "-", "*", "/", "**", "<", "(", ")", "if", "else", "."}

Tokens == NameTokens \cup NumberTokens \cup OtherTokens

\* the token at position i, "" past the end
Tok(toks, i) == IF i <= Len(toks) THEN toks[i] ELSE ""

Fail == [ok |-> FALSE, ast |-> <<>>, pos |-> 0]

Parsed(ast, pos) == [ok |-> TRUE, ast |-> ast, pos |-> pos]

\* the element of a set of one element: Only({e : x \in {v}}) is e with x
\* standing for the value of v, which is computed once
Only(S) == CHOOSE r \in S : TRUE

RECURSIVE ParseTest(_, _), ParseComparisonTail(_, _, _, _), ParseArithTail(_, _, _),
          ParseTermTail(_, _, _), ParseFactor(_, _), ParseTrailers(_, _, _)

\* ( test ) from the token after the parenthesis on
ParseParenthesised(toks, i) ==
    Only({IF e.ok /\ Tok(toks, e.pos) = ")" THEN Parsed(e.ast, e.pos + 1)
          ELSE Fail
          : e \in {ParseTest(toks, i)}})

ParseAtom(toks, i) ==
    LET t == Tok(toks, i)
    IN  IF t \in NameTokens THEN Parsed(<<"name", t>>, i + 1)
        ELSE IF t \in NumberTokens THEN Parsed(<<"num", DigitValue[t]>>, i + 1)
        ELSE IF t = "(" THEN
            IF Tok(toks, i + 1) = ")" THEN Parsed(<<"tuple">>, i + 2)
            ELSE ParseParenthesised(toks, i + 1)
        ELSE Fail

ParseTrailers(toks, left, i) ==
    LET t == Tok(toks, i)
    IN  IF t = "." THEN
            IF Tok(toks, i + 1) \in NameTokens
            THEN ParseTrailers(toks, <<"attr", left, Tok(toks, i + 1)>>, i + 2)
            ELSE Fail
        ELSE IF t = "(" THEN
            IF Tok(toks, i + 1) = ")" THEN ParseTrailers(toks, <<"call", left, <<>>>>, i + 2)
            ELSE Only({IF c.ok
                       THEN ParseTrailers(toks, <<"call", left, <<c.ast>>>>, c.pos)
                       ELSE Fail
                       : c \in {ParseParenthesised(toks, i + 1)}})
        ELSE Parsed(left, i)

ParsePrimary(toks, i) ==
    Only({IF a.ok THEN ParseTrailers(toks, a.ast, a.pos) ELSE Fail
          : a \in {ParseAtom(toks, i)}})

\* the operand to the right of an operator, joined to the one on its left
ParseRight(right, op, left) ==
    Only({IF f.ok THEN Parsed(<<"bin", op, left, f.ast>>, f.pos) ELSE Fail
          : f \in {right}})

ParsePower(toks, i) ==
    Only({IF a.ok /\ Tok(toks, a.pos) = "**"
          THEN ParseRight(ParseFactor(toks, a.pos + 1), "**", a.ast)
          ELSE a
          : a \in {ParsePrimary(toks, i)}})

ParseFactor(toks, i) ==
    IF Tok(toks, i) \in {"+", "-"} THEN
        Only({IF f.ok THEN Parsed(<<"unary", Tok(toks, i), f.ast>>, f.pos)
              ELSE Fail
              : f \in {ParseFactor(toks, i + 1)}})
    ELSE ParsePower(toks, i)

ParseTermTail(toks, left, i) ==
    IF Tok(toks, i) \in {"*", "/"} THEN
        Only({IF b.ok THEN ParseTermTail(toks, b.ast, b.pos) ELSE Fail
              : b \in {ParseRight(ParseFactor(toks, i + 1), Tok(toks, i), left)}})
    ELSE Parsed(left, i)

ParseTerm(toks, i) ==
    Only({IF f.ok THEN ParseTermTail(toks, f.ast, f.pos) ELSE Fail
          : f \in {ParseFactor(toks, i)}})

ParseArithTail(toks, left, i) ==
    IF Tok(toks, i) \in {"+", "-"} THEN
        Only({IF b.ok THEN ParseArithTail(toks, b.ast, b.pos) ELSE Fail
              : b \in {ParseRight(ParseTerm(toks, i + 1), Tok(toks, i), left)}})
    ELSE Parsed(left, i)

ParseArith(toks, i) ==
    Only({IF f.ok THEN ParseArithTail(toks, f.ast, f.pos) ELSE Fail
          : f \in {ParseTerm(toks, i)}})

\* first < rest[1] < rest[2] < ...
ParseComparisonTail(toks, first, rest, i) ==
    IF Tok(toks, i) = "<" THEN
        Only({IF f.ok
              THEN ParseComparisonTail(toks, first, Append(rest, f.ast), f.pos)
              ELSE Fail
              : f \in {ParseArith(toks, i + 1)}})
    ELSE IF rest = <<>> THEN Parsed(first, i)
    ELSE Parsed(<<"compare", first, rest>>, i)

ParseComparison(toks, i) ==
    Only({IF f.ok THEN ParseComparisonTail(toks, f.ast, <<>>, f.pos) ELSE Fail
          : f \in {ParseArith(toks, i)}})

\* body if test else orelse, from the token after "if" on
ParseConditional(toks, body, i) ==
    Only({IF c.ok /\ Tok(toks, c.pos) = "else" THEN
              Only({IF e.ok THEN Parsed(<<"ifexp", body, c.ast, e.ast>>, e.pos)
                    ELSE Fail
                    : e \in {ParseTest(toks, c.pos + 1)}})
          ELSE Fail
          : c \in {ParseComparison(toks, i)}})

ParseTest(toks, i) ==
    Only({IF a.ok /\ Tok(toks, a.pos) = "if"
          THEN ParseConditional(toks, a.ast, a.pos + 1)
          ELSE a
          : a \in {ParseComparison(toks, i)}})

\* compile(source, "<string>", "eval"): the whole string is one expression
ParseEval(toks) ==
    Only({IF e.ok /\ e.pos = Len(toks) + 1 THEN e ELSE Fail
          : e \in {ParseTest(toks, 1)}})

RECURSIVE EvalNode(_, _), EvalChain(_, _, _)

\* the value of a syntax tree; names are looked up in local_vars only, as
\* __builtins__ is empty
EvalNode(node, local_vars) ==
    CASE node[1] = "num" -> PyInt(node[2])
      [] node[1] = "name" ->
            IF node[2] \in DOMAIN local_vars THEN local_vars[node[2]]
            ELSE Raised("NameError")
      [] node[1] = "tuple" -> PyTuple
      [] node[1] = "unary" ->
            Only({UnaryOp(node[2], a)
                  : a \in {EvalNode(node[3], local_vars)}})
      [] node[1] = "bin" ->
            Only({Only({BinOp(node[2], a, b)
                        : b \in {EvalNode(node[4], local_vars)}})
                  : a \in {EvalNode(node[3], local_vars)}})
      [] node[1] = "attr" ->
            Only({Attribute(a, node[3])
                  : a \in {EvalNode(node[2], local_vars)}})
      [] node[1] = "call" ->
            Only({Only({CallValue(a, args)
                        : args \in {[i \in 1..Len(node[3]) |-> EvalNode(node[3][i], local_vars)]}})
                  : a \in {EvalNode(node[2], local_vars)}})
      [] node[1] = "compare" ->
            Only({EvalChain(a, node[3], local_vars)
                  : a \in {EvalNode(node[2], local_vars)}})
      [] node[1] = "ifexp" ->
            Only({IF c.py = "raise" THEN c
                  ELSE IF Truthy(c) THEN EvalNode(node[2], local_vars)
                  ELSE EvalNode(node[4], local_vars)
                  : c \in {EvalNode(node[3], local_vars)}})

\* left < rest[1] < ...: the operands after a false comparison are not
\* evaluated
EvalChain(left, rest, local_vars) ==
    Only({Only({IF c.py = "raise" \/ Len(rest) = 1 \/ ~Truthy(c) THEN c
                ELSE EvalChain(right, Tail(rest), local_vars)
                : c \in {Less(left, right)}})
          : right \in {EvalNode(rest[1], local_vars)}})

\* eval(value, {"__builtins__": {}}, local_vars)
Eval(toks, local_vars) ==
    Only({IF e.ok THEN EvalNode(e.ast, local_vars) ELSE Raised("SyntaxError")
          : e \in {ParseEval(toks)}})

\* {k: float(v["value"]) for k, v in param_space.items()}: a dict, or the
\* first exception raised; param_space is a sequence of <<name, value>>
LocalVars(param_space) ==
    Only({LET bad == {i \in 1..Len(param_space) : conv[i].py = "raise"}
          IN  IF bad # {} THEN conv[CHOOSE i \in bad : \A j \in bad : i <= j]
              ELSE PyDict([k \in {param_space[i][1] : i \in 1..Len(param_space)} |->
                      conv[CHOOSE i \in 1..Len(param_space) : param_space[i][1] = k]])
          : conv \in {[i \in 1..Len(param_space) |-> ToFloat(Subscript(param_space[i][2], "value"))]}})

Returned(v, caught) == [kind |-> "returned", value |-> v, caught |-> caught]

\* what evaluate_formula(value, param_space) does: it returns a value, with
\* the exception that evaluation raised and it caught, or raises
evaluate_formula(value, param_space) ==
    IF value.py \in {"int", "bool", "float"} THEN Returned(value, "")
    ELSE IF value.py = "str" THEN
        Only({IF local_vars.py = "raise"
              THEN [kind |-> "raised", type |-> local_vars.type]
              ELSE Only({IF r.py = "raise" THEN Returned(value, r.type)
                         ELSE Returned(r, "")
                         : r \in {ToFloat(Eval(value.s, local_vars.items))}})
              : local_vars \in {LocalVars(param_space)}})
    ELSE Returned(PyNone, "")

(***************************************************************************)
(* step_manager.py: StepManager.                                           *)
(* A name is a sequence of characters.  An entry of the steps folder is a  *)
(* record: its name, whether it is a directory, whether it holds a file    *)
(* step.py, and the classes that dir(module) lists for that file, in the   *)
(* order dir lists them.  A class is known by the location that defines    *)
(* it, its own name, its name attribute and the keyword arguments that its *)
(* constructor takes, all of them optional.                                *)
(***************************************************************************)
LowerChar(c) ==
    CASE c = "F" -> "f"
      [] c = "O" -> "o"
      [] c = "B" -> "b"
      [] c = "A" -> "a"
      [] c = "R" -> "r"
      [] c = "Z" -> "z"
      [] OTHER -> c

\* name.lower()
Lower(name) == [i \in 1..Len(name) |-> LowerChar(name[i])]

\* os.path.isdir(step_folder) and os.path.isfile(step_file)
IsStepLocation(entry) == entry.isdir /\ entry.has_step

RECURSIVE Discover(_, _)
\* the loop of discover_steps over the entries that are left, from the
\* registry built so far: the registry at the end, or the ValueError of a
\* step.py without a class, with the registry as it was then
Discover(entries, reg) ==
    IF entries = <<>> THEN [ok |-> TRUE, registry |-> reg]
    ELSE LET entry == Head(entries)
         IN  IF ~IsStepLocation(entry) THEN Discover(Tail(entries), reg)
             ELSE IF entry.classes = <<>> THEN [ok |-> FALSE, registry |-> reg]
             ELSE Discover(Tail(entries),
                           With(reg, Lower(entry.name), entry.classes[1]))

\* step_cls(**config) for a dict config
Instantiate(step_cls, config) ==
    IF DOMAIN config.items \subseteq step_cls.params
    THEN [kind |-> "returned", instance |-> [cls |-> step_cls, kwargs |-> config.items]]
    ELSE [kind |-> "raised", type |-> "TypeError", instantiating |-> TRUE]

\* a lookup that keeps the case of the name
GetStepCaseSensitive(reg, name, config) ==
    IF name \notin DOMAIN reg
    THEN [kind |-> "raised", type |-> "ValueError", instantiating |-> FALSE]
    ELSE IF config.py = "none" THEN Instantiate(reg[name], PyDict(<<>>))
    ELSE IF config.py # "dict"
    THEN [kind |-> "raised", type |-> "TypeError", instantiating |-> FALSE]
    ELSE Instantiate(reg[name], config)

\* get_step(name, config) on the registry reg
get_step(reg, name, config) ==
    IF Lower(name) \notin DOMAIN reg
    THEN [kind |-> "raised", type |-> "ValueError", instantiating |-> FALSE]
    ELSE IF config.py = "none" THEN Instantiate(reg[Lower(name)], PyDict(<<>>))
    ELSE IF config.py # "dict"
    THEN [kind |-> "raised", type |-> "TypeError", instantiating |-> FALSE]
    ELSE Instantiate(reg[Lower(name)], config)

(***************************************************************************)
(* The filesystem: a function from the paths that exist to what is there.  *)
(* A path is a sequence of components.  A file is known by its size in     *)
(* bytes and by whether its writer finished it (whole) or was cut short.   *)
(* It holds the directories and the files that some step reads or tests;   *)
(* the files that are only ever written (scripts, logs, the unpacked       *)
(* HEPMC input) appear in the set of paths a call has written.             *)
(***************************************************************************)
Dir == [kind |-> "dir", size |-> 0, whole |-> TRUE]

File(size, whole) == [kind |-> "file", size |-> size, whole |-> whole]

\* a process that leaves its output file as it was
NoWrite == [kind |-> "none", size |-> 0, whole |-> TRUE]

\* prev_output = None, and the empty string that MadGraphStep.run can return
NonePath == <<>>
EmptyStr == <<"">>

\* os.path.exists, os.path.getsize
Exists(f, path) == path \in DOMAIN f

GetSize(f, path) == f[path].size

Parent(path) == SubSeq(path, 1, Len(path) - 1)

BaseName(path) == path[Len(path)]

IsUnder(path, dir) == Len(path) >= Len(dir) /\ SubSeq(path, 1, Len(dir)) = dir

Prefixes(path) == {SubSeq(path, 1, n) : n \in 1..Len(path)}

\* the directories that os.makedirs(path, exist_ok=True) creates
NewDirs(f, path) == Prefixes(path) \ DOMAIN f

MakeDirs(f, path) ==
    [x \in DOMAIN f \cup Prefixes(path) |-> IF x \in DOMAIN f THEN f[x] ELSE Dir]

\* a writer (the code or an external process) leaves val at path
WriteFile(f, path, val) ==
    IF val.kind = "none" THEN f
    ELSE LET g == MakeDirs(f, Parent(path))
         IN  [x \in DOMAIN g \cup {path} |-> IF x = path THEN val ELSE g[x]]

\* the paths that WriteFile(f, path, val) creates or modifies
Touched(f, path, val) ==
    IF val.kind = "none" THEN {} ELSE NewDirs(f, Parent(path)) \cup {path}

\* shutil.copy / shutil.copyfile: dst gets the content of src
CopyFile(f, src, dst) == WriteFile(f, dst, f[src])

\* the sizes of the files the environment writes: empty, non-empty up to
\* the threshold of MadGraphStep.is_done, and above it
Empty == 0
Small == MinEventBytes
Big == MinEventBytes + 1

\* a file whose writer was cut short: non-empty, incomplete
Partial == File(Big, FALSE)

\* What an external process does: its exit status and its output file.  A
\* process that exits 0 leaves no file or a finished one of a size in sizes;
\* one that fails or is killed leaves no file or a partial one.
ProcOutcomes(sizes) ==
    {[ok |-> TRUE, out |-> w] : w \in {NoWrite} \cup {File(s, TRUE) : s \in sizes}}
        \cup {[ok |-> FALSE, out |-> w] : w \in {NoWrite, Partial}}

NoProc == [ok |-> TRUE, out |-> NoWrite]

\* an external process that a call of run launched and waited for: the
\* program, and whether its exit status was 0
Proc(name, ok) == [name |-> name, ok |-> ok]

\* the result of one call of run; procs is the sequence of the external
\* processes it launched, in the order it launched them
Result(f, res, ret, skipped, procs, writes) ==
    [fs |-> f, result |-> res, ret |-> ret, skipped |-> skipped,
     launched |-> Len(procs), procs |-> procs, writes |-> writes]

(***************************************************************************)
(* steps/slha/step.py                                                      *)
(***************************************************************************)
SLHAOutcomes ==
    {[template |-> "missing", cut |-> FALSE, size |-> 0]}
        \cup {[template |-> "ok", cut |-> TRUE, size |-> 0]}
        \cup {[template |-> "ok", cut |-> FALSE, size |-> s] : s \in {Empty, Big}}

SLHAGood == [template |-> "ok", cut |-> FALSE, size |-> Big]

SLHAFile(point_dir) == point_dir \o <<"slha", "param_card.slha">>

IsDoneSLHA(f, point_dir) ==
    LET slha_file == SLHAFile(point_dir)
    IN  Exists(f, slha_file) /\ GetSize(f, slha_file) > 0

\* f"{topology}." + "_".join(f"{pname}_{int(value)}p0" ...) + ".slha"
SLHAResultName(config) ==
    LET param_space == Get(config, "parameter_space", <<>>)
        param_parts ==
            [i \in 1..Len(param_space) |->
                param_space[i][1] \o "_"
                    \o Join(CharsOf(Get(param_space[i][2], "value", <<0>>))) \o "p0"]
    IN  Get(config, "topology", "unknown") \o "." \o JoinWith("_", param_parts)
            \o ".slha"

SLHADest(config) ==
    Get(config, "workdir", <<"all_points_runs">>)
        \o <<"slha_results", SLHAResultName(config)>>

\* if self.skip_if_done and self.is_done(point_dir)
SkipSLHA(f, point_dir, skip_if_done) == skip_if_done /\ IsDoneSLHA(f, point_dir)

RunSLHA(f, config, point_dir, prev_output, skip_if_done, o) ==
    LET step_dir  == point_dir \o <<"slha">>
        f1        == MakeDirs(f, step_dir)
        w1        == NewDirs(f, step_dir)
        slha_file == SLHAFile(point_dir)
        skip      == SkipSLHA(f1, point_dir, skip_if_done)
        dest_path == SLHADest(config)
    IN  IF ~skip /\ o.template = "missing"
        THEN Result(f1, "raised", NonePath, FALSE, <<>>, w1)
        ELSE IF ~skip /\ o.cut
        THEN Result(WriteFile(f1, slha_file, Partial), "killed", NonePath,
                    FALSE, <<>>, w1 \cup {slha_file})
        ELSE LET f2 == IF skip THEN f1
                       ELSE WriteFile(f1, slha_file, File(o.size, TRUE))
                 w2 == IF skip THEN w1 ELSE w1 \cup {slha_file}
                 f3 == CopyFile(f2, slha_file, dest_path)
                 w3 == w2 \cup Touched(f2, dest_path, f2[slha_file])
             IN  Result(f3, "returned", slha_file, skip, <<>>, w3)

(***************************************************************************)
(* steps/madgraph/step.py                                                  *)
(***************************************************************************)
\* the default of the constructor's run_name
RunName == "run_01"

\* What the environment does to one call of run: whether MG5_EXEC is set,
\* whether the proc card can be read, and what each external process does.
\* mg5 is "fail" (non-zero exit), "nobin" (exit 0, no bin/madevent written)
\* or "ok"; stages that the call does not reach carry NoProc.
MGOutcome(env, card, mg5, edit, gen, py) ==
    [env |-> env, card |-> card, mg5 |-> mg5, edit |-> edit, gen |-> gen, py |-> py]

MGOutcomes ==
    {MGOutcome(FALSE, TRUE, "ok", TRUE, NoProc, NoProc),
     MGOutcome(TRUE, FALSE, "ok", TRUE, NoProc, NoProc),
     MGOutcome(TRUE, TRUE, "fail", TRUE, NoProc, NoProc),
     MGOutcome(TRUE, TRUE, "nobin", TRUE, NoProc, NoProc),
     MGOutcome(TRUE, TRUE, "ok", FALSE, NoProc, NoProc)}
        \cup {MGOutcome(TRUE, TRUE, "ok", TRUE, g, NoProc) :
                g \in {x \in ProcOutcomes({Big}) : ~x.ok}}
        \cup {MGOutcome(TRUE, TRUE, "ok", TRUE, g, y) :
                g \in {x \in ProcOutcomes({Big}) : x.ok},
                y \in ProcOutcomes({Small, Big})}

MGGood ==
    MGOutcome(TRUE, TRUE, "ok", TRUE, [ok |-> TRUE, out |-> File(Big, TRUE)],
              [ok |-> TRUE, out |-> File(Big, TRUE)])

MGLheOut(point_dir) ==
    Parent(point_dir) \o <<"mg5_events_lhe", BaseName(point_dir) \o ".lhe.gz">>

MGHepmcOut(point_dir) ==
    Parent(point_dir) \o <<"mg5py8_events_hepmc", BaseName(point_dir) \o ".hepmc.gz">>

MGLheGz(point_dir) ==
    point_dir \o <<"madgraph", "Events", RunName, "unweighted_events.lhe.gz">>

MGHepmcGz(point_dir) ==
    point_dir \o <<"madgraph", "Events", RunName, RunName \o "_pythia8_events.hepmc.gz">>

MGCandidates(point_dir) ==
    {MGLheGz(point_dir), MGLheOut(point_dir), MGHepmcOut(point_dir)}

IsDoneMadGraph(f, point_dir) ==
    \E file_path \in MGCandidates(point_dir) :
        Exists(f, file_path) /\ GetSize(f, file_path) > MinEventBytes

\* the location that the skip path of run returns
MGSkipReturn(f, point_dir) ==
    IF Exists(f, MGHepmcOut(point_dir)) THEN MGHepmcOut(point_dir)
    ELSE IF Exists(f, MGLheOut(point_dir)) THEN MGLheOut(point_dir)
    ELSE EmptyStr

\* a skip test that counts only the published HEPMC file
SkipMadGraphHepmcOnly(f, point_dir, skip_if_done) ==
    /\ skip_if_done
    /\ Exists(f, MGHepmcOut(point_dir))
    /\ GetSize(f, MGHepmcOut(point_dir)) > MinEventBytes

\* if self.skip_if_done and self.is_done(point_dir)
SkipMadGraph(f, point_dir, skip_if_done) == skip_if_done /\ IsDoneMadGraph(f, point_dir)

RunMadGraph(f, config, point_dir, prev_output, skip_if_done, o) ==
    LET step_dir  == point_dir \o <<"madgraph">>
        lhe_out   == MGLheOut(point_dir)
        hepmc_out == MGHepmcOut(point_dir)
        f1 == MakeDirs(MakeDirs(MakeDirs(f, step_dir), Parent(lhe_out)),
                       Parent(hepmc_out))
        w1 == NewDirs(f, step_dir) \cup NewDirs(f, Parent(lhe_out))
                  \cup NewDirs(f, Parent(hepmc_out))
        \* the proc card rewritten into the step directory, and the MG5 log
        new_proc_card == step_dir \o <<"proc_card.dat">>
        log_file_path == point_dir \o <<"madgraph_full.log">>
        w2 == w1 \cup {new_proc_card, log_file_path}
        \* MG5 writes the process directory, bin/madevent in it
        madevent_exec == step_dir \o <<"bin", "madevent">>
        mgw == IF o.mg5 = "ok" THEN File(Big, TRUE) ELSE NoWrite
        f3  == WriteFile(f1, madevent_exec, mgw)
        w3  == w2 \cup Touched(f1, madevent_exec, mgw)
        edit_script == step_dir \o <<"edit_cards.mg5">>
        w4 == w3 \cup {edit_script}
        \* generate_events writes the LHE file
        gen_script == step_dir \o <<"generate_events_script.mg5">>
        lhe_gz     == MGLheGz(point_dir)
        f5 == WriteFile(f3, lhe_gz, o.gen.out)
        w5 == w4 \cup {gen_script} \cup Touched(f3, lhe_gz, o.gen.out)
        \* pythia8 writes the HEPMC file
        pythia_script == step_dir \o <<"run_pythia8.mg5">>
        hepmc_gz      == MGHepmcGz(point_dir)
        f6 == WriteFile(f5, hepmc_gz, o.py.out)
        w6 == w5 \cup {pythia_script} \cup Touched(f5, hepmc_gz, o.py.out)
        \* collect outputs
        f7 == IF Exists(f6, lhe_gz) THEN CopyFile(f6, lhe_gz, lhe_out) ELSE f6
        w7 == w6 \cup (IF Exists(f6, lhe_gz) THEN {lhe_out} ELSE {})
        f8 == IF Exists(f7, hepmc_gz) THEN CopyFile(f7, hepmc_gz, hepmc_out) ELSE f7
        w8 == w7 \cup (IF Exists(f7, hepmc_gz) THEN {hepmc_out} ELSE {})
        \* the processes, as far as the call gets: Popen of MG5 with the
        \* test of its returncode, then subprocess.run(..., check=True)
        p1 == <<Proc("mg5", o.mg5 # "fail")>>
        p2 == Append(p1, Proc("edit_cards", o.edit))
        p3 == Append(p2, Proc("generate_events", o.gen.ok))
        p4 == Append(p3, Proc("pythia8", o.py.ok))
    IN  IF SkipMadGraph(f1, point_dir, skip_if_done)
        THEN Result(f1, "returned", MGSkipReturn(f1, point_dir), TRUE, <<>>, w1)
        ELSE IF ~o.env \/ ~o.card THEN Result(f1, "raised", NonePath, FALSE, <<>>, w1)
        ELSE IF o.mg5 = "fail" THEN Result(f3, "raised", NonePath, FALSE, p1, w3)
        ELSE IF ~Exists(f3, madevent_exec)
        THEN Result(f3, "raised", NonePath, FALSE, p1, w4)
        ELSE IF ~o.edit THEN Result(f3, "raised", NonePath, FALSE, p2, w4)
        ELSE IF ~o.gen.ok THEN Result(f5, "raised", NonePath, FALSE, p3, w5)
        ELSE IF ~o.py.ok THEN Result(f6, "raised", NonePath, FALSE, p4, w6)
        ELSE IF Exists(f8, hepmc_out)
        THEN Result(f8, "returned", hepmc_out, FALSE, p4, w8)
        ELSE Result(f8, "raised", NonePath, FALSE, p4, w8)

(***************************************************************************)
(* steps/delphes_hepmc/step.py                                             *)
(***************************************************************************)
\* whether DELPHES_EXEC is set, whether the config names a card, and what
\* the Delphes process does
DelphesOutcomes ==
    {[env |-> FALSE, card |-> TRUE, proc |-> NoProc],
     [env |-> TRUE, card |-> FALSE, proc |-> NoProc]}
        \cup {[env |-> TRUE, card |-> TRUE, proc |-> x] : x \in ProcOutcomes({Empty, Big})}

DelphesGood == [env |-> TRUE, card |-> TRUE, proc |-> [ok |-> TRUE, out |-> File(Big, TRUE)]]

DelphesOutput(point_dir) == point_dir \o <<"delphes_hepmc", "delphes_output.root">>

IsDoneDelphes(f, point_dir) ==
    LET output_root == DelphesOutput(point_dir)
    IN  Exists(f, output_root) /\ GetSize(f, output_root) > 0

\* if self.skip_if_done and self.is_done(point_dir)
SkipDelphes(f, point_dir, skip_if_done) == skip_if_done /\ IsDoneDelphes(f, point_dir)

\* run with subprocess.run(...) in place of subprocess.run(..., check=True):
\* the exit status of Delphes is not looked at
RunDelphesUnchecked(f, config, point_dir, prev_output, skip_if_done, o) ==
    LET step_dir    == point_dir \o <<"delphes_hepmc">>
        f1          == MakeDirs(f, step_dir)
        w1          == NewDirs(f, step_dir)
        output_root == DelphesOutput(point_dir)
        w2 == w1 \cup {step_dir \o <<"input.hepmc">>}
        f3 == WriteFile(f1, output_root, o.proc.out)
        w3 == w2 \cup Touched(f1, output_root, o.proc.out)
    IN  IF SkipDelphes(f1, point_dir, skip_if_done)
        THEN Result(f1, "returned", output_root, TRUE, <<>>, w1)
        ELSE IF ~o.env \/ ~o.card THEN Result(f1, "raised", NonePath, FALSE, <<>>, w1)
        ELSE IF prev_output = NonePath \/ ~Exists(f1, prev_output)
        THEN Result(f1, "raised", NonePath, FALSE, <<>>, w1)
        ELSE IF ~f1[prev_output].whole
        THEN Result(f1, "raised", NonePath, FALSE, <<>>, w2)
        ELSE Result(f3, "returned", output_root, FALSE,
                    <<Proc("delphes", o.proc.ok)>>, w3)

RunDelphes(f, config, point_dir, prev_output, skip_if_done, o) ==
    LET step_dir    == point_dir \o <<"delphes_hepmc">>
        f1          == MakeDirs(f, step_dir)
        w1          == NewDirs(f, step_dir)
        output_root == DelphesOutput(point_dir)
        tmp_hepmc   == step_dir \o <<"input.hepmc">>
        \* gzip.open(prev_output) copied into tmp_hepmc: a truncated gzip
        \* stream raises after part of it has been unpacked
        w2 == w1 \cup {tmp_hepmc}
        f3 == WriteFile(f1, output_root, o.proc.out)
        w3 == w2 \cup Touched(f1, output_root, o.proc.out)
        \* subprocess.run([delphes_exec, ...], check=True)
        p1 == <<Proc("delphes", o.proc.ok)>>
    IN  IF SkipDelphes(f1, point_dir, skip_if_done)
        THEN Result(f1, "returned", output_root, TRUE, <<>>, w1)
        ELSE IF ~o.env \/ ~o.card THEN Result(f1, "raised", NonePath, FALSE, <<>>, w1)
        ELSE IF prev_output = NonePath \/ ~Exists(f1, prev_output)
        THEN Result(f1, "raised", NonePath, FALSE, <<>>, w1)
        ELSE IF ~f1[prev_output].whole
        THEN Result(f1, "raised", NonePath, FALSE, <<>>, w2)
        ELSE IF ~o.proc.ok THEN Result(f3, "raised", NonePath, FALSE, p1, w3)
        ELSE Result(f3, "returned", output_root, FALSE, p1, w3)

(***************************************************************************)
(* steps/cutlang/step.py                                                   *)
(***************************************************************************)
\* the base name of the ADL file of the configuration, without extension
AdlBaseName == "analysis"

\* whether the config has cutlang.adl_file, whether CLA_EXEC is set, and
\* what the CutLang process does
CutLangOutcomes ==
    {[adl |-> FALSE, env |-> TRUE, proc |-> NoProc],
     [adl |-> TRUE, env |-> FALSE, proc |-> NoProc]}
        \cup {[adl |-> TRUE, env |-> TRUE, proc |-> x] : x \in ProcOutcomes({Empty, Big})}

CutLangGood == [adl |-> TRUE, env |-> TRUE, proc |-> [ok |-> TRUE, out |-> File(Big, TRUE)]]

CutLangOutput(point_dir) ==
    point_dir \o <<"cutlang", "histoOut-" \o AdlBaseName \o ".root">>

CutLangFinal(point_dir) ==
    Parent(point_dir) \o <<"cutlang_results", BaseName(point_dir) \o ".root">>

IsDoneCutLang(f, point_dir) ==
    LET output_root == CutLangOutput(point_dir)
    IN  Exists(f, output_root) /\ GetSize(f, output_root) > 0

\* if self.skip_if_done and self.is_done(point_dir, adl_file)
SkipCutLang(f, point_dir, skip_if_done) == skip_if_done /\ IsDoneCutLang(f, point_dir)

RunCutLang(f, config, point_dir, prev_output, skip_if_done, o) ==
    LET step_dir    == point_dir \o <<"cutlang">>
        f1          == MakeDirs(f, step_dir)
        w1          == NewDirs(f, step_dir)
        output_root == CutLangOutput(point_dir)
        f2 == WriteFile(f1, output_root, o.proc.out)
        w2 == w1 \cup Touched(f1, output_root, o.proc.out)
        final_path == CutLangFinal(point_dir)
        f3 == MakeDirs(f2, Parent(final_path))
        w3 == w2 \cup NewDirs(f2, Parent(final_path))
        f4 == CopyFile(f3, output_root, final_path)
        w4 == w3 \cup {final_path}
        \* subprocess.run([cla_exec, ...], check=True)
        p1 == <<Proc("cutlang", o.proc.ok)>>
    IN  IF ~o.adl THEN Result(f, "raised", NonePath, FALSE, <<>>, {})
        ELSE IF SkipCutLang(f1, point_dir, skip_if_done)
        THEN Result(f1, "returned", output_root, TRUE, <<>>, w1)
        ELSE IF prev_output = NonePath \/ ~o.env
        THEN Result(f1, "raised", NonePath, FALSE, <<>>, w1)
        ELSE IF ~o.proc.ok THEN Result(f2, "raised", NonePath, FALSE, p1, w2)
        ELSE IF ~Exists(f3, output_root)
        THEN Result(f3, "raised", NonePath, FALSE, p1, w3)
        ELSE Result(f4, "returned", final_path, FALSE, p1, w4)

(***************************************************************************)
(* The sweep.  The configurations that a behaviour can start from.         *)
(***************************************************************************)
\* two points of ordinary size, with a fixed second parameter
ConfigSmall ==
    [topology |-> "T1", energy |-> <<1, 3>>, workdir |-> <<"runs">>,
     parameter_space |->
        << <<"M1", [min |-> <<1, 0, 0>>, max |-> <<2, 0, 0>>, step |-> 100]>>,
           <<"M2", [value |-> <<5, 0>>]>> >>]

\* two points whose values have more digits than the name rendering keeps;
\* no workdir key
ConfigBig ==
    [topology |-> "T1", energy |-> <<1, 3>>,
     parameter_space |->
        << <<"M1", [min |-> <<1, 0, 0, 0, 0, 0, 0, 0, 0, 0, 0>>,
                    max |-> <<1, 0, 0, 0, 0, 0, 0, 0, 0, 0, 1>>,
                    step |-> 1]>> >>]

\* one point
ConfigOne ==
    [topology |-> "T1", energy |-> <<1, 3>>, workdir |-> <<"runs">>,
     parameter_space |->
        << <<"M1", [min |-> <<1, 0, 0>>, max |-> <<1, 5, 0>>, step |-> 100]>>,
           <<"M2", [value |-> <<5, 0>>]>> >>]

StepOrder == <<"slha", "madgraph", "delphes_hepmc", "cutlang">>

\* the directory of a point: <workdir>/<job_name>
PointDir(cfg) == Get(cfg, "workdir", <<"all_points_runs">>) \o <<cfg["job_name"]>>

\* is_done of a step
IsDone(step, f, point_dir) ==
    CASE step = "slha" -> IsDoneSLHA(f, point_dir)
      [] step = "madgraph" -> IsDoneMadGraph(f, point_dir)
      [] step = "delphes_hepmc" -> IsDoneDelphes(f, point_dir)
      [] step = "cutlang" -> IsDoneCutLang(f, point_dir)

\* the files whose presence is_done of a step tests
Artifacts(step, point_dir) ==
    CASE step = "slha" -> {SLHAFile(point_dir)}
      [] step = "madgraph" -> MGCandidates(point_dir)
      [] step = "delphes_hepmc" -> {DelphesOutput(point_dir)}
      [] step = "cutlang" -> {CutLangOutput(point_dir)}

\* the location that a run of the step that does the work returns
WorkReturn(step, point_dir) ==
    CASE step = "slha" -> SLHAFile(point_dir)
      [] step = "madgraph" -> MGHepmcOut(point_dir)
      [] step = "delphes_hepmc" -> DelphesOutput(point_dir)
      [] step = "cutlang" -> CutLangFinal(point_dir)

NonEmptyFile(f, path) == Exists(f, path) /\ f[path].kind = "file" /\ f[path].size > 0

VARIABLES
    config,        \* the WorkflowConfig given to generate
    gen,           \* the generator: "ready", "exhausted" or "error"
    gen_error,     \* the parameter that the error of the generator names, or ""
    pcfg,          \* pcfg[p]: the config of the p-th yielded point
    runner,        \* runner[p]: the pipeline of point p, and what each step's
                   \* last run that did the work returned
    skip_if_done,  \* the skip_if_done the steps were constructed with
    fs,            \* the filesystem
    last,          \* the last call of a step's run since a pipeline was entered
    failed,        \* <<p, step>>: run raised and has not succeeded since
    written,       \* written[p]: the paths the runs of point p have written
    budget,        \* the calls of run that are left to the behaviour
    faults,        \* whether the environment of the steps can fail
    formula,       \* the value given to evaluate_formula
    point,         \* the param_space given to evaluate_formula
    outcome,       \* what the call of evaluate_formula did
    listing,       \* os.listdir(steps_dir): the entries of the steps folder
    registry,      \* StepManager.registry
    got,           \* what the last call of get_step did
    heap,          \* the dict objects of the modifiers' caller, by address
    frame,         \* the generator that generate(**config) returned
    yielded,       \* the addresses of the configs the generator yielded
    renamed        \* the calls of modify: the config given, the one returned

sweepVars ==
    <<config, gen, gen_error, pcfg, runner, skip_if_done, fs, last, failed, written,
      budget, faults>>

formulaVars == <<formula, point, outcome>>

registryVars == <<listing, registry, got>>

copyVars == <<heap, frame, yielded, renamed>>

vars ==
    <<config, gen, gen_error, pcfg, runner, skip_if_done, fs, last, failed, written,
      budget, faults, formulaVars, registryVars, copyVars>>

\* no call has been made
NoOutcome == [kind |-> "none"]

\* the evaluator is not in use
NoFormula ==
    /\ formula = <<>>
    /\ point = <<>>
    /\ outcome = NoOutcome

\* the step manager is not in use
NoRegistry ==
    /\ listing = <<>>
    /\ registry = <<>>
    /\ got = NoOutcome

\* no object is followed
NoCopy ==
    /\ heap = <<>>
    /\ frame = NoOutcome
    /\ yielded = <<>>
    /\ renamed = <<>>

NoCall ==
    [point |-> 0, step |-> "", result |-> "none", skipped |-> FALSE,
     ret |-> NonePath, prev |-> NonePath, launched |-> 0, procs |-> <<>>,
     writes |-> {},
     clobbered |-> {}, wasDone |-> FALSE, hadArtifact |-> FALSE, changed |-> FALSE]

Start(configs, calls, env) ==
    /\ config \in configs
    /\ budget = calls
    /\ faults = env
    /\ gen = "ready"
    /\ gen_error = ""
    /\ pcfg = <<>>
    /\ runner = <<>>
    /\ NoFormula
    /\ NoRegistry
    /\ NoCopy
    /\ skip_if_done \in BOOLEAN
    /\ fs = <<>>
    /\ last = NoCall
    /\ failed = {}
    /\ written = <<>>

\* a sweep of one point, in an environment where settings can be missing,
\* processes can fail or be killed and outputs can be absent or empty
Init == Start({ConfigOne}, MaxCalls, TRUE)

\* a sweep of two points, one worker for each, in an environment where
\* every process succeeds, so that each run writes all that it can write
InitSweep == Start({ConfigSmall, ConfigBig}, MaxSweepCalls, FALSE)

\* the outcomes the environment can choose from
Env(all, good) == IF faults THEN all ELSE {good}

\* next(generate(**config)): the ranges are built, raising on a bad entry,
\* before the first point is yielded
GenNext ==
    /\ gen = "ready"
    /\ IF ~GenerateOk(config)
       THEN /\ gen' = "error"
            /\ gen_error' = BadParameter(config)
            /\ UNCHANGED <<pcfg, runner, written>>
       ELSE IF Len(pcfg) = Len(GenerateAll(config))
       THEN /\ gen' = "exhausted"
            /\ UNCHANGED <<gen_error, pcfg, runner, written>>
       ELSE /\ pcfg' = Append(pcfg, GenerateAll(config)[Len(pcfg) + 1])
            /\ runner' = Append(runner, [pc |-> "yielded", idx |-> 1, prev |-> NonePath,
                                         prevSkipped |-> FALSE,
                                         work |-> [i \in DOMAIN StepOrder |-> NonePath]])
            /\ written' = Append(written, {})
            /\ UNCHANGED <<gen, gen_error>>
    /\ UNCHANGED <<config, skip_if_done, fs, last, failed, budget, faults>>
    /\ UNCHANGED <<formulaVars, registryVars, copyVars>>

\* JobNameModifier.modify on the config of point p; its pipeline can start
Modify(p) ==
    /\ runner[p].pc = "yielded"
    /\ pcfg' = [pcfg EXCEPT ![p] = modify(pcfg[p])]
    /\ runner' = [runner EXCEPT ![p].pc = "running"]
    /\ UNCHANGED <<config, gen, gen_error, skip_if_done, fs, last, failed, written,
                   budget, faults, formulaVars, registryVars, copyVars>>

\* one step of the pipeline of point p: the step's run is called with the
\* location the previous step returned; the pipeline halts when it raises
Call(p, r) ==
    LET step == StepOrder[runner[p].idx]
        pd   == PointDir(pcfg[p])
    IN  /\ budget > 0
        /\ budget' = budget - 1
        /\ fs' = r.fs
        /\ last' = [point |-> p, step |-> step, result |-> r.result,
                    skipped |-> r.skipped, ret |-> r.ret, prev |-> runner[p].prev,
                    launched |-> r.launched, procs |-> r.procs, writes |-> r.writes,
                    clobbered |-> {x \in r.writes : Exists(fs, x) /\ fs[x].kind = "file"},
                    wasDone |-> IsDone(step, fs, pd),
                    hadArtifact |-> \E a \in Artifacts(step, pd) : NonEmptyFile(fs, a),
                    changed |-> r.fs # fs]
        /\ written' = [written EXCEPT ![p] = @ \cup r.writes]
        /\ failed' = IF r.result = "raised" THEN failed \cup {<<p, step>>}
                     ELSE IF r.result = "returned" /\ ~r.skipped
                     THEN failed \ {<<p, step>>}
                     ELSE failed
        /\ runner' = [runner EXCEPT ![p] =
                        IF r.result # "returned" THEN [@ EXCEPT !.pc = "failed"]
                        ELSE LET w == IF r.skipped THEN @.work
                                      ELSE [@.work EXCEPT ![runner[p].idx] = r.ret]
                             IN  IF @.idx = Len(StepOrder)
                                 THEN [@ EXCEPT !.pc = "done", !.work = w]
                                 ELSE [@ EXCEPT !.idx = @ + 1, !.prev = r.ret,
                                                !.prevSkipped = r.skipped, !.work = w]]
        /\ UNCHANGED <<config, gen, gen_error, pcfg, skip_if_done, faults, formulaVars,
                       registryVars, copyVars>>

AtStep(p, step) == runner[p].pc = "running" /\ StepOrder[runner[p].idx] = step

StepSLHA(p) ==
    /\ AtStep(p, "slha")
    /\ \E o \in Env(SLHAOutcomes, SLHAGood) :
        Call(p, RunSLHA(fs, pcfg[p], PointDir(pcfg[p]), runner[p].prev, skip_if_done, o))

StepMadGraph(p) ==
    /\ AtStep(p, "madgraph")
    /\ \E o \in Env(MGOutcomes, MGGood) :
        Call(p, RunMadGraph(fs, pcfg[p], PointDir(pcfg[p]), runner[p].prev, skip_if_done, o))

StepDelphes(p) ==
    /\ AtStep(p, "delphes_hepmc")
    /\ \E o \in Env(DelphesOutcomes, DelphesGood) :
        Call(p, RunDelphes(fs, pcfg[p], PointDir(pcfg[p]), runner[p].prev, skip_if_done, o))

StepCutLang(p) ==
    /\ AtStep(p, "cutlang")
    /\ \E o \in Env(CutLangOutcomes, CutLangGood) :
        Call(p, RunCutLang(fs, pcfg[p], PointDir(pcfg[p]), runner[p].prev, skip_if_done, o))

\* the sweep is started again: the pipeline of point p is entered afresh
Reenter(p) ==
    /\ runner[p].pc \in {"done", "failed"}
    /\ runner' = [runner EXCEPT ![p] = [pc |-> "running", idx |-> 1, prev |-> NonePath,
                                        prevSkipped |-> FALSE, work |-> @.work]]
    /\ last' = NoCall
    /\ UNCHANGED <<config, gen, gen_error, pcfg, skip_if_done, fs, failed, written,
                   budget, faults, formulaVars, registryVars, copyVars>>

Next ==
    \/ GenNext
    \/ \E p \in DOMAIN runner :
        \/ Modify(p)
        \/ StepSLHA(p)
        \/ StepMadGraph(p)
        \/ StepDelphes(p)
        \/ StepCutLang(p)
        \/ Reenter(p)

Spec == Init /\ [][Next]_vars

SpecSweep == InitSweep /\ [][Next]_vars

(***************************************************************************)
(* generate on its own: every parameter space of up to MaxParams entries,  *)
(* each a fixed value, a range with a positive step (one of them empty),   *)
(* an entry of both shapes, a value with part of a range, or an entry of   *)
(* neither shape.                                                          *)
(***************************************************************************)
ParamNames == <<"a", "b", "c", "d">>

ExpandEntries ==
    {[value |-> DigitsOf(MaxValue)]}
    \cup {[min |-> DigitsOf(lo), max |-> DigitsOf(hi), step |-> st] :
            lo \in 0..1, hi \in (MaxValue - 1)..MaxValue, st \in 1..2}
    \cup {[min |-> <<1>>, max |-> <<0>>, step |-> 1],
          [value |-> <<9>>, min |-> <<0>>, max |-> <<1>>, step |-> 1],
          [value |-> <<9>>, min |-> <<0>>],
          [min |-> <<0>>, max |-> <<1>>]}

ExpandConfigs ==
    UNION {{[topology |-> "T1", energy |-> <<1, 3>>,
             parameter_space |-> [i \in 1..n |-> <<ParamNames[i], e[i]>>]] :
                e \in [1..n -> ExpandEntries]} : n \in 0..MaxParams}

InitExpand == Start(ExpandConfigs, 0, FALSE) /\ skip_if_done = TRUE

\* the caller draws the generator to its end and runs nothing
NextExpand == GenNext

SpecExpand == InitExpand /\ [][NextExpand]_vars

\* no sweep is in progress
NoSweep ==
    /\ config = <<>>
    /\ gen = "exhausted"
    /\ gen_error = ""
    /\ pcfg = <<>>
    /\ runner = <<>>
    /\ skip_if_done = TRUE
    /\ fs = <<>>
    /\ last = NoCall
    /\ failed = {}
    /\ written = <<>>
    /\ budget = 0
    /\ faults = FALSE

(***************************************************************************)
(* evaluate_formula on its own.  The point declares the parameter M, of    *)
(* value 8, or nothing; B and real are names it does not declare.          *)
(***************************************************************************)
\* M as generate yields it: {"M": {"value": 8}}
WrappedPoint == << <<"M", PyDict([value |-> PyInt(8)])>> >>

\* M bound directly to its value: {"M": 8}
ScalarPoint == << <<"M", PyInt(8)>> >>

Points ==
    {<<>>, WrappedPoint, ScalarPoint,
     << <<"M", PyDict([value |-> PyStr(<<"8">>)])>> >>,
     << <<"M", PyDict([value |-> PyStr(<<"x">>)])>> >>,
     << <<"M", PyDict([x \in {} |-> PyNone])>> >>}

\* every string of up to MaxTokens tokens
TokenStrings == UNION {[1..n -> Tokens] : n \in 0..MaxTokens}

\* longer strings: arithmetic with parentheses, a conditional expression,
\* a chained comparison, an attribute of a parenthesised value, a call
SampleStrings ==
    {<<"(", "M", "-", "4", ")", "*", "4">>,
     <<"M", "/", "(", "M", "-", "4", "-", "4", ")">>,
     <<"4", "if", "M", "<", "4", "else", "0">>,
     <<"4", "if", "M", "else", "B">>,
     <<"0", "<", "4", "<", "M">>,
     <<"(", "M", "<", "4", ")", ".", "real">>,
     <<"M", ".", "real", "(", ")">>,
     <<"(", ")", "<", "(", ")">>}

\* values that are not strings
OtherValues == {PyInt(3), PyFloat(1, 2), PyBool(TRUE), PyNone}

InitFormula ==
    /\ NoSweep
    /\ NoRegistry
    /\ NoCopy
    /\ outcome = NoOutcome
    /\ \/ /\ formula \in {PyStr(t) : t \in TokenStrings}
          /\ point = WrappedPoint
       \/ /\ formula \in {PyStr(t) : t \in SampleStrings \cup [1..3 -> {"M", "/", "4"}]}
                        \cup OtherValues
          /\ point \in Points

\* evaluate_formula(formula, point)
Evaluate ==
    /\ outcome = NoOutcome
    /\ outcome' = evaluate_formula(formula, point)
    /\ UNCHANGED <<formula, point, sweepVars, registryVars, copyVars>>

NextFormula == Evaluate

SpecFormula == InitFormula /\ [][NextFormula]_vars

(***************************************************************************)
(* The step manager on its own: a steps folder of up to MaxLocations       *)
(* entries, listed in any order, and calls of get_step on the manager.     *)
(***************************************************************************)
LocationNames == {<<"f", "o", "o">>, <<"F", "o", "o">>, <<"b", "a", "r">>}

\* the class cls that the step.py of location loc defines
StepClass(loc, cls, name) ==
    [loc |-> loc, cls |-> cls, name |-> name, params |-> {"skip_if_done"}]

\* what a folder entry of a given name can be: a step whose name attribute
\* is the location's name in lowercase, a step with another name attribute,
\* a step.py with two classes, a step.py with no class, a directory
\* without step.py, a plain file
EntriesNamed(n) ==
    {[name |-> n, isdir |-> TRUE, has_step |-> TRUE,
      classes |-> <<StepClass(n, "Step", Lower(n))>>],
     [name |-> n, isdir |-> TRUE, has_step |-> TRUE,
      classes |-> <<StepClass(n, "Step", <<"o", "t", "h", "e", "r">>)>>],
     [name |-> n, isdir |-> TRUE, has_step |-> TRUE,
      classes |-> <<StepClass(n, "Helper", <<>>), StepClass(n, "Step", Lower(n))>>],
     [name |-> n, isdir |-> TRUE, has_step |-> TRUE, classes |-> <<>>],
     [name |-> n, isdir |-> TRUE, has_step |-> FALSE, classes |-> <<>>],
     [name |-> n, isdir |-> FALSE, has_step |-> FALSE, classes |-> <<>>]}

\* the listings of a folder: no two entries have the same name
Listings ==
    UNION {{l \in [1..n -> UNION {EntriesNamed(x) : x \in LocationNames}] :
                \A i, j \in 1..n : i # j => l[i].name # l[j].name} :
           n \in 0..MaxLocations}

\* the names that get_step is asked for
QueryNames ==
    LocationNames \cup {<<"F", "O", "O">>, <<"B", "A", "R">>, <<"b", "a", "z">>}

\* the configs that get_step is given
StepConfigs ==
    {PyNone, PyDict(<<>>), PyDict([skip_if_done |-> PyBool(FALSE)]),
     PyDict([bogus |-> PyInt(1)]), [py |-> "list"], PyStr(<<"x">>), PyInt(1)}

InitRegistry ==
    /\ NoSweep
    /\ NoFormula
    /\ NoCopy
    /\ listing \in Listings
    /\ registry = <<>>
    /\ got = NoOutcome

\* StepManager(steps_dir): the registry starts empty and discover_steps
\* fills it; when discover_steps raises there is no manager
NewStepManager ==
    /\ got = NoOutcome
    /\ LET r == Discover(listing, <<>>)
       IN  /\ registry' = r.registry
           /\ got' = IF r.ok THEN [kind |-> "constructed"]
                     ELSE [kind |-> "no manager", type |-> "ValueError"]
    /\ UNCHANGED <<listing, sweepVars, formulaVars, copyVars>>

\* manager.get_step(name, config)
GetStep(name, cfg) ==
    /\ got.kind \notin {"none", "no manager"}
    /\ got' = [call |-> [name |-> name, config |-> cfg, registry |-> registry]]
                @@ get_step(registry, name, cfg)
    /\ UNCHANGED <<listing, registry, sweepVars, formulaVars, copyVars>>

NextRegistry ==
    \/ NewStepManager
    \/ \E name \in QueryNames, c \in StepConfigs : GetStep(name, c)

SpecRegistry == InitRegistry /\ [][NextRegistry]_vars

(***************************************************************************)
(* modifiers.py: generate and modify on objects.                           *)
(* Python dicts are objects: two names can hold the same dict, and a       *)
(* write through one is seen through the other.  The heap is a sequence of *)
(* dicts, the address of a dict its index in it.  A config dict binds each *)
(* key to a reference to another dict of the heap (the parameter space,    *)
(* the settings of a step) or to a value that cannot change (a string, a   *)
(* number).  A parameter space is held as before, a sequence of            *)
(* <<name, entry>> pairs.                                                  *)
(***************************************************************************)
Ref(a) == [ref |-> a]

Val(v) == [val |-> v]

IsRef(x) == "ref" \in DOMAIN x

\* dict.copy(): a new dict, at the next address, that binds the same keys
\* to the same objects
DictCopy(h, a) == Append(h, h[a])

\* h[a][k] = v
SetItem(h, a, k, v) == [h EXCEPT ![a] = With(@, k, v)]

\* the dict at address a with the dicts it refers to written out
View(h, a) ==
    [k \in DOMAIN h[a] |-> IF IsRef(h[a][k]) THEN h[h[a][k].ref] ELSE h[a][k].val]

\* the objects that can be reached from the dict at address a
Reach(h, a) == {a} \cup {h[a][k].ref : k \in {x \in DOMAIN h[a] : IsRef(h[a][x])}}

\* a body of the loop of generate that writes into config itself and yields
\* it: new_cfg = config in place of new_cfg = config.copy()
GenerateInPlace(h, cfg, combo) ==
    LET h1 == Append(h, combo)
    IN  [heap |-> SetItem(h1, cfg, "parameter_space", Ref(Len(h1))), ret |-> cfg]

\* the body of the loop of generate, for the config dict at cfg and the
\* point combo: the heap after it and the address of the config it yields
GenerateBody(h, cfg, combo) ==
    LET h1 == Append(h, combo)
        h2 == DictCopy(h1, cfg)
    IN  [heap |-> SetItem(h2, Len(h2), "parameter_space", Ref(Len(h1))),
         ret |-> Len(h2)]

\* the body of modify for the config dict at cfg
ModifyBody(h, cfg) ==
    LET job_name == JobName(View(h, cfg))
        h1 == DictCopy(h, cfg)
    IN  [heap |-> SetItem(h1, Len(h1), "job_name", Val(job_name)), ret |-> Len(h1)]

\* the caller's objects: its config at address 1, the parameter space at
\* 2, the settings of a step at 3
Input == 1

\* the configs given: with and without a parameter space, with and without
\* a job name of their own
InputConfigs ==
    LET base == [topology |-> Val("T1"), energy |-> Val(<<1, 3>>), madgraph |-> Ref(3)]
    IN  {base, With(base, "parameter_space", Ref(2)),
         With(With(base, "parameter_space", Ref(2)), "job_name", Val("mine"))}

\* the parameter spaces given: up to MaxParams entries, each a fixed value,
\* a range or an entry of neither shape
InputSpaces ==
    LET entries == {[value |-> DigitsOf(MaxValue)],
                    [min |-> <<0>>, max |-> DigitsOf(MaxValue), step |-> 2],
                    [min |-> <<1>>, max |-> DigitsOf(MaxValue), step |-> 1],
                    [min |-> <<0>>, max |-> <<1>>]}
    IN  UNION {{[i \in 1..n |-> <<ParamNames[i], e[i]>>] : e \in [1..n -> entries]} :
                n \in 0..MaxParams}

InitCopy ==
    /\ NoSweep
    /\ NoFormula
    /\ NoRegistry
    /\ \E c \in InputConfigs, e \in InputSpaces :
            heap = <<c, e, [proc_card |-> Val("proc_card.dat")]>>
    /\ frame = NoOutcome
    /\ yielded = <<>>
    /\ renamed = <<>>

\* generate(**config): the keyword arguments are collected into a new dict,
\* which is the config of the generator; its body has not started
CallGenerate ==
    /\ frame = NoOutcome
    /\ heap' = DictCopy(heap, Input)
    /\ frame' = [kind |-> "created", config |-> Len(heap) + 1, points |-> <<>>, n |-> 0]
    /\ UNCHANGED <<yielded, renamed, sweepVars, formulaVars, registryVars>>

\* next() on the generator: the body runs to its next yield, to its end or
\* to the ValueError of a bad entry; the ranges are built on the first call.
\* The caller has given the config it got before to modify.
ResumeGenerate ==
    /\ frame.kind \in {"created", "suspended"}
    /\ Len(renamed) = Len(yielded)
    /\ IF frame.kind = "created" /\ ~GenerateOk(View(heap, frame.config))
       THEN /\ frame' = [frame EXCEPT !.kind = "error"]
            /\ UNCHANGED <<heap, yielded>>
       ELSE LET points ==
                    IF frame.kind = "suspended" THEN frame.points
                    ELSE LET all == GenerateAll(View(heap, frame.config))
                         IN  [i \in DOMAIN all |-> all[i]["parameter_space"]]
            IN  IF frame.n = Len(points)
                THEN /\ frame' = [frame EXCEPT !.kind = "exhausted", !.points = points]
                     /\ UNCHANGED <<heap, yielded>>
                ELSE LET r == GenerateBody(heap, frame.config, points[frame.n + 1])
                     IN  /\ heap' = r.heap
                         /\ yielded' = Append(yielded, r.ret)
                         /\ frame' = [frame EXCEPT !.kind = "suspended",
                                                   !.points = points, !.n = @ + 1]
    /\ UNCHANGED <<renamed, sweepVars, formulaVars, registryVars>>

\* modify(**cfg) for the config the generator has just yielded
CallModify ==
    /\ Len(renamed) < Len(yielded)
    /\ LET a == yielded[Len(yielded)]
           r == ModifyBody(DictCopy(heap, a), Len(heap) + 1)
       IN  /\ heap' = r.heap
           /\ renamed' = Append(renamed, [given |-> a, returned |-> r.ret])
    /\ UNCHANGED <<frame, yielded, sweepVars, formulaVars, registryVars>>

NextCopy ==
    \/ CallGenerate
    \/ ResumeGenerate
    \/ CallModify

SpecCopy == InitCopy /\ [][NextCopy]_vars

TypeOK ==
    /\ gen \in {"ready", "exhausted", "error"}
    /\ Len(pcfg) = Len(runner)
    /\ budget >= 0

(***************************************************************************)
(* steps/madgraph/step.py: the run_card lines of the edit_cards script.    *)
(* A string is a sequence of tokens or characters.  A line is known by the *)
(* key it sets, the text after the key and the result it was made from.    *)
(***************************************************************************)
\* str(int(x)) for the integer n
StrInt(n) == IF n < 0 THEN <<"-">> \o CharsOf(DigitsOf(-n)) ELSE CharsOf(DigitsOf(n))

RECURSIVE Exp10(_, _)
\* the e with 10^e <= n/d < 10^(e+1), for n/d > 0
Exp10(n, d) ==
    IF n < d THEN Exp10(10 * n, d) - 1
    ELSE IF n >= 10 * d THEN Exp10(n, 10 * d) + 1
    ELSE 0

\* f"{x:.6g}" for the float x = n/d that is no integer: six significant
\* digits, rounded half to even, trailing zeros removed; fixed notation
\* when the exponent is in -4..5, else a mantissa and an exponent
FormatG6(n, d) ==
    LET a    == Abs(n)
        e0   == Exp10(a, d)
        num  == IF e0 <= 5 THEN a * IntPow(10, 5 - e0) ELSE a
        den  == IF e0 <= 5 THEN d ELSE d * IntPow(10, e0 - 5)
        q    == num \div den
        r    == num % den
        up   == 2 * r > den \/ (2 * r = den /\ q % 2 = 1)
        over == up /\ q + 1 = IntPow(10, 6)
        m    == IF over THEN IntPow(10, 5) ELSE IF up THEN q + 1 ELSE q
        e    == IF over THEN e0 + 1 ELSE e0
        dig  == CharsOf(DigitsOf(m))
        sign == IF n < 0 THEN <<"-">> ELSE <<>>
        frac(t) == IF RStripZero(t) = <<>> THEN <<>> ELSE <<".">> \o RStripZero(t)
        ee   == CharsOf(DigitsOf(Abs(e)))
    IN  IF e < -4 \/ e >= 6
        THEN sign \o <<dig[1]>> \o frac(Tail(dig))
                \o <<"e", IF e < 0 THEN "-" ELSE "+">>
                \o (IF Len(ee) < 2 THEN <<"0">> ELSE <<>>) \o ee
        ELSE IF e >= 0
        THEN sign \o SubSeq(dig, 1, e + 1) \o frac(SubSeq(dig, e + 2, 6))
        ELSE sign \o <<"0", ".">> \o [i \in 1..(-e - 1) |-> "0"] \o RStripZero(dig)

\* evaluated_str of a result that is not None
EvaluatedStr(evaluated) ==
    IF IsNum(evaluated) /\ evaluated.d = 1 THEN StrInt(evaluated.n)
    ELSE IF evaluated.py = "float" THEN FormatG6(evaluated.n, evaluated.d)
    ELSE evaluated.s

RECURSIVE SetRunCard(_, _)
\* the loop over run_settings, a sequence of <<key, val>>: the lines it
\* writes, or the exception of evaluate_formula that ends it
SetRunCard(run_settings, param_space) ==
    IF run_settings = <<>> THEN [kind |-> "written", lines |-> <<>>]
    ELSE Only({
        IF e.kind = "raised" THEN [kind |-> "raised", type |-> e.type, lines |-> <<>>]
        ELSE IF e.value = PyNone THEN SetRunCard(Tail(run_settings), param_space)
        ELSE Only({[rest EXCEPT !.lines =
                        <<[key |-> run_settings[1][1], text |-> EvaluatedStr(e.value),
                           evaluated |-> e.value]>> \o @]
                   : rest \in {SetRunCard(Tail(run_settings), param_space)}})
        : e \in {evaluate_formula(run_settings[1][2], param_space)}})

\* the values of a run_settings entry: numbers, None, formulas that give
\* an integer, a fraction, a truth value, a tie in the sixth digit and a
\* large fraction, and formulas that cannot be resolved
CardValues ==
    {PyInt(3), PyFloat(1, 2), PyFloat(-5, 2), PyBool(TRUE), PyNone}
        \cup {PyStr(t) : t \in
                {<<"M">>, <<"M", "/", "4">>, <<"4", "/", "M">>, <<"-", "M">>,
                 <<"M", "<", "4">>, <<"4", "/", "(", "M", "+", "4", ")">>,
                 <<"4", "/", "M", "**", "4">>,
                 <<"M", "**", "M", "/", "4", "+", "4", "/", "M">>,
                 <<"B", "/", "4">>, <<"M", "+">>, <<"(", ")">>, <<"M", "/", "0">>}}

InitCards ==
    /\ NoSweep
    /\ NoRegistry
    /\ NoCopy
    /\ outcome = NoOutcome
    /\ formula \in CardValues
    /\ point \in Points

\* the run_card part of the script for run_settings = {"ebeam1": formula,
\* "nevents": 4} and parameter_space = point
EditCards ==
    /\ outcome = NoOutcome
    /\ outcome' = SetRunCard(<< <<"ebeam1", formula>>, <<"nevents", PyInt(4)>> >>, point)
    /\ UNCHANGED <<formula, point, sweepVars, registryVars, copyVars>>

NextCards == EditCards

SpecCards == InitCards /\ [][NextCards]_vars

(***************************************************************************)
(* Properties.                                                             *)
(***************************************************************************)
Named == {p \in DOMAIN runner : runner[p].pc # "yielded"}

Dir_(p) == PointDir(pcfg[p])

Called == last.step # ""

\* an artifact of the step is partially written and no artifact of it is a
\* finished non-empty file
OnlyPartial(step, point_dir) ==
    /\ \E a \in Artifacts(step, point_dir) : NonEmptyFile(fs, a) /\ ~fs[a].whole
    /\ \A a \in Artifacts(step, point_dir) : NonEmptyFile(fs, a) => ~fs[a].whole

\* C1: a step whose run raised, and has not done its work successfully
\* since, is not done for that point, and a run of it does not skip.
C1_FailedStepNotDone ==
    \A x \in failed :
        /\ ~IsDone(x[2], fs, Dir_(x[1]))
        /\ ~(last.point = x[1] /\ last.step = x[2] /\ last.skipped)

\* C2: while the artifact of a step is only partially written (it exists,
\* is non-empty and incomplete), is_done is false for the point and a run of
\* the step does not skip.
C2_PartialArtifactNotDone ==
    \A p \in Named : \A i \in DOMAIN StepOrder :
        OnlyPartial(StepOrder[i], Dir_(p)) =>
            /\ ~IsDone(StepOrder[i], fs, Dir_(p))
            /\ ~(last.point = p /\ last.step = StepOrder[i] /\ last.skipped)

\* C3: a run that skips returns the location of a file that exists and is
\* non-empty when it returns.
C3_SkipReturnsArtifact ==
    (Called /\ last.skipped) => NonEmptyFile(fs, last.ret)

C5_SkipWritesNothing ==
    (Called /\ last.skipped) => (last.writes = {} /\ ~last.changed)

\* C6: when a resumed pipeline reaches its first step that is not done, the
\* location the skipped step before it returned is the one a run that did
\* the work returns, and it exists.
C6_ResumeMidChain ==
    \A p \in Named :
        (/\ runner[p].pc = "running"
         /\ runner[p].idx > 1
         /\ runner[p].prevSkipped
         /\ ~IsDone(StepOrder[runner[p].idx], fs, Dir_(p)))
        => /\ runner[p].prev = WorkReturn(StepOrder[runner[p].idx - 1], Dir_(p))
           /\ Exists(fs, runner[p].prev)

\* the directories next to the point directories that hold published copies
ResultDirs == {"slha_results", "mg5_events_lhe", "mg5py8_events_hepmc", "cutlang_results"}

InSharedResults(x, point_dir) ==
    /\ IsUnder(x, Parent(point_dir))
    /\ Len(x) >= Len(point_dir)
    /\ x[Len(point_dir)] \in ResultDirs

\* C7: every path a run creates or modifies is under the step's own
\* subdirectory of the point directory or in a shared results subdirectory
\* (or is the point directory or a parent of it, created on the way), and no
\* file that already exists in the shared results area is overwritten.
C7_WritesConfined ==
    Called =>
        /\ \A x \in last.writes :
            \/ IsUnder(x, Dir_(last.point) \o <<last.step>>)
            \/ InSharedResults(x, Dir_(last.point))
            \/ x \in Prefixes(Dir_(last.point))
        /\ \A x \in last.clobbered : ~InSharedResults(x, Dir_(last.point))

\* C8: the runs of two distinct points of a sweep write no common path.
C8_PointsWriteDisjoint ==
    \A p, q \in DOMAIN written : p # q => written[p] \cap written[q] = {}

\* the extensions of the published copies
ResultExts == {".slha", ".lhe.gz", ".hepmc.gz", ".root"}

\* C9: every file a run writes outside the point directory is in a shared
\* results subdirectory next to the point directories and is named by the
\* point's job name followed by the step's output extension.
C9_PublishedCopyNamedByPoint ==
    Called =>
        \A x \in last.writes :
            (~IsUnder(x, Dir_(last.point)) /\ Exists(fs, x) /\ fs[x].kind = "file")
            => /\ InSharedResults(x, Dir_(last.point))
               /\ Len(x) = Len(Dir_(last.point)) + 1
               /\ \E e \in ResultExts : BaseName(x) = pcfg[last.point]["job_name"] \o e

\* C10: two distinct parameter points of one expansion get distinct job
\* names.
C10_JobNamesDistinct ==
    \A p, q \in Named :
        pcfg[p]["parameter_space"] # pcfg[q]["parameter_space"]
            => pcfg[p]["job_name"] # pcfg[q]["job_name"]

\* C20: a run of delphes_hepmc or cutlang that does not skip and whose
\* prev_output is None, names no file or names an empty file raises
\* without having launched an external process.
C20_MissingInputFails ==
    (Called /\ last.step \in {"delphes_hepmc", "cutlang"} /\ ~last.skipped
        /\ (last.prev = NonePath \/ ~NonEmptyFile(fs, last.prev)))
    => (last.result = "raised" /\ last.launched = 0)

(***************************************************************************)
(* Properties of the expansion.                                            *)
(***************************************************************************)
\* the parameter space given to generate
Space == Get(config, "parameter_space", <<>>)

\* the entry has the shape {min, max, step}
RangeShape(e) == {"min", "max", "step"} \subseteq DOMAIN e

\* the entry has the shape {value}
ValueShape(e) == "value" \in DOMAIN e

\* the values of entry e, written down from its bounds
Listed(e) ==
    IF RangeShape(e)
    THEN LET lo == ValueOf(e["min"])
             hi == ValueOf(e["max"])
             n  == IF lo <= hi THEN ((hi - lo) \div e["step"]) + 1 ELSE 0
         IN  [k \in 1..n |-> DigitsOf(lo + (k - 1) * e["step"])]
    ELSE <<e["value"]>>

RECURSIVE Count(_, _)
\* how many points the entries from the i-th on span
Count(space, i) ==
    IF i > Len(space) THEN 1 ELSE Len(Listed(space[i][2])) * Count(space, i + 1)

\* the value of the i-th parameter in the n-th point of the row-major order
RowMajor(space, n, i) ==
    LET vals == Listed(space[i][2])
    IN  vals[(((n - 1) \div Count(space, i + 1)) % Len(vals)) + 1]

\* every entry of the space has one of the two shapes
Shaped == \A i \in 1..Len(Space) : RangeShape(Space[i][2]) \/ ValueShape(Space[i][2])

\* C11: generate yields the Cartesian product of the per-parameter value
\* lists, each point once, in row-major order (the last-declared parameter
\* varies fastest), and each yielded point has the parameters of the input
\* space, in its order, each with its value; the rest of the config is kept.
C11_RowMajorProduct ==
    Shaped =>
        /\ Len(pcfg) <= Count(Space, 1)
        /\ gen = "exhausted" => Len(pcfg) = Count(Space, 1)
        /\ \A n \in 1..Len(pcfg) :
            /\ DOMAIN pcfg[n] = DOMAIN config \cup {"parameter_space"}
            /\ \A k \in DOMAIN config \ {"parameter_space"} : pcfg[n][k] = config[k]
            /\ Len(pcfg[n]["parameter_space"]) = Len(Space)
            /\ \A i \in 1..Len(Space) :
                pcfg[n]["parameter_space"][i]
                    = <<Space[i][1], [value |-> RowMajor(Space, n, i)]>>
        /\ \A n, m \in 1..Len(pcfg) : n # m => pcfg[n] # pcfg[m]

\* two parameters of several values each have been expanded to the end
C11_Witness ==
    /\ gen = "exhausted"
    /\ Len(Space) = 2
    /\ Len(pcfg) >= 6
    /\ pcfg[1]["parameter_space"][1] = pcfg[2]["parameter_space"][1]
    /\ pcfg[1]["parameter_space"][2] # pcfg[2]["parameter_space"][2]

\* C12: for a range entry with step > 0 and min <= max generate uses the
\* values min, min+step, min+2*step, ... that are <= max, and no other:
\* floor((max-min)/step)+1 values, max among them exactly when step divides
\* max-min.
C12_RangeValues ==
    \A i \in 1..Len(Space) :
        LET e    == Space[i][2]
            lo   == ValueOf(e["min"])
            hi   == ValueOf(e["max"])
            vals == EntryValues(e)
            used == {ValueOf(pcfg[n]["parameter_space"][i][2]["value"]) :
                        n \in 1..Len(pcfg)}
            all  == {v \in lo..hi : (v - lo) % e["step"] = 0}
        IN  (Shaped /\ RangeShape(e) /\ e["step"] > 0 /\ lo <= hi) =>
                /\ Len(vals) = ((hi - lo) \div e["step"]) + 1
                /\ \A k \in 1..Len(vals) : ValueOf(vals[k]) = lo + (k - 1) * e["step"]
                /\ (hi \in {ValueOf(vals[k]) : k \in 1..Len(vals)})
                        <=> ((hi - lo) % e["step"] = 0)
                /\ used \subseteq all
                /\ (gen = "exhausted" /\ pcfg # <<>>) => used = all

\* a range whose step does not divide its span, and one whose step does,
\* have been expanded to the end
C12_Witness ==
    /\ gen = "exhausted"
    /\ Len(Space) = 2
    /\ RangeShape(Space[1][2]) /\ RangeShape(Space[2][2])
    /\ Space[1][2] = [min |-> <<0>>, max |-> DigitsOf(MaxValue), step |-> 2]
    /\ Space[2][2] = [min |-> <<1>>, max |-> DigitsOf(MaxValue), step |-> 2]
    /\ Len(pcfg) = Count(Space, 1)
    /\ Len(pcfg) >= 4

\* the parameters whose entry has neither shape
Shapeless == {i \in 1..Len(Space) : ~RangeShape(Space[i][2]) /\ ~ValueShape(Space[i][2])}

\* C13: when an entry of the space has neither a 'value' nor all of 'min',
\* 'max' and 'step', generate yields no point, before or after the error,
\* and its first step ends in an error that names a parameter with such an
\* entry, wherever in the space the entry is declared.
C13_BadEntryYieldsNothing ==
    /\ Shapeless # {} =>
        /\ pcfg = <<>>
        /\ gen # "exhausted"
        /\ gen = "error" => \E i \in Shapeless : gen_error = Space[i][1]
    /\ gen = "error" => Shapeless # {}

\* the generator failed on an entry declared after a valid range
C13_Witness ==
    /\ gen = "error"
    /\ Len(Space) = 2
    /\ RangeShape(Space[1][2])
    /\ Shapeless = {2}
    /\ gen_error = "b"

\* C14: an entry that does not have exactly one of the two shapes, one that
\* carries a 'value' together with 'min', 'max' or 'step' included, is
\* rejected: generate ends in an error and expands nothing.
C14_ExactlyOneShape ==
    (\E i \in 1..Len(Space) :
        LET keys == DOMAIN Space[i][2]
        IN  keys # {"value"} /\ keys # {"min", "max", "step"})
    => (pcfg = <<>> /\ gen # "exhausted")

(***************************************************************************)
(* Properties of the formula evaluator.                                    *)
(***************************************************************************)
\* evaluate_formula has been called
Evaluated == outcome # NoOutcome

\* arithmetic expressions over M = 8 and what they come to
ArithmeticResults ==
    (<<"M", "/", "4">> :> PyFloat(2, 1))
    @@ (<<"M", "*", "4">> :> PyFloat(32, 1))
    @@ (<<"4", "-", "M">> :> PyFloat(-4, 1))
    @@ (<<"4", "/", "M">> :> PyFloat(1, 2))
    @@ (<<"M", "/", "M">> :> PyFloat(1, 1))
    @@ (<<"(", "M", "-", "4", ")", "*", "4">> :> PyFloat(16, 1))

\* C15: called with an arithmetic expression over the parameter names and a
\* point that maps each name directly to its scalar value (M/4 with M: 8),
\* evaluate_formula returns the number the expression comes to.
C15_ScalarPointEvaluates ==
    (Evaluated /\ point = ScalarPoint /\ formula.py = "str"
        /\ formula.s \in DOMAIN ArithmeticResults)
    => outcome = Returned(ArithmeticResults[formula.s], "")

\* C16: for every string and every parameter mapping the call does not
\* raise, and when the expression cannot be evaluated it returns the
\* string it was given.
C16_NeverRaises ==
    (Evaluated /\ formula.py = "str")
    => /\ outcome.kind = "returned"
       /\ outcome.value.py # "float" => outcome.value = formula

\* the names that the point declares
Declared == {point[i][1] : i \in 1..Len(point)}

\* the tokens of the arithmetic that a formula may use
ArithmeticTokens == NumberTokens \cup Declared \cup {"+", "-", "*", "/", "(", ")"}

\* C17: a string comes to a number only when it is built from numeric
\* literals, declared parameter names, + - * / and parentheses; a string
\* with any other construct is returned as it was given.
C17_OnlyArithmeticEvaluates ==
    (Evaluated /\ formula.py = "str" /\ outcome.kind = "returned"
        /\ outcome.value.py = "float")
    => \A i \in 1..Len(formula.s) : formula.s[i] \in ArithmeticTokens

(***************************************************************************)
(* Properties of the step manager.                                         *)
(***************************************************************************)
\* discovery has ended and there is a manager
Discovered == got.kind \notin {"none", "no manager"}

\* the last operation on the manager was a call of get_step
Asked == "call" \in DOMAIN got

\* the entries of the steps folder that are step locations
Locations == {i \in 1..Len(listing) : listing[i].isdir /\ listing[i].has_step}

\* C18: after discovery every step location N is registered under
\* lowercase(N), whatever the name attribute of its class, and
\* get_step(M, {}) returns an instance of the class of location N for every
\* M that equals N when letter case is ignored.
C18_RegistryRoundTrip ==
    Discovered =>
        \A i \in Locations :
            /\ Lower(listing[i].name) \in DOMAIN registry
            /\ registry[Lower(listing[i].name)].loc = listing[i].name
            /\ (Asked /\ Lower(got.call.name) = Lower(listing[i].name)
                    /\ got.call.config = PyDict(<<>>))
               => /\ got.kind = "returned"
                  /\ got.instance.cls.loc = listing[i].name

\* get_step raised without a step having been constructed and with the
\* registry as it was
FailedClean(type) ==
    /\ got.kind = "raised"
    /\ got.type = type
    /\ ~got.instantiating
    /\ registry = got.call.registry

\* C19 as the specification states it: get_step fails with the unknown-step
\* error for every name whose lowercase form is no key of the registry and
\* with the configuration-shape error for every registered name when the
\* config is not a mapping; no step is instantiated and the registry is
\* unchanged.
C19_GetStepErrors ==
    Asked =>
        /\ Lower(got.call.name) \notin DOMAIN got.call.registry
                => FailedClean("ValueError")
        /\ (Lower(got.call.name) \in DOMAIN got.call.registry
                /\ got.call.config.py # "dict")
                => FailedClean("TypeError")

\* C19, amended: get_step fails with the unknown-step error exactly for the
\* names whose lowercase form is no key of the registry, and with the
\* configuration-shape error for every registered name when the config is
\* neither a mapping nor None; no step is instantiated and the registry is
\* unchanged.  With None the step is instantiated with no settings.
C19_GetStepErrorsButNone ==
    Asked =>
        /\ Lower(got.call.name) \notin DOMAIN got.call.registry
                => FailedClean("ValueError")
        /\ (got.kind = "raised" /\ got.type = "ValueError")
                => Lower(got.call.name) \notin DOMAIN got.call.registry
        /\ (Lower(got.call.name) \in DOMAIN got.call.registry
                /\ got.call.config.py \notin {"dict", "none"})
                => FailedClean("TypeError")
        /\ (Lower(got.call.name) \in DOMAIN got.call.registry
                /\ got.call.config.py = "none")
                => (got.kind = "returned" /\ got.instance.kwargs = <<>>)
        /\ registry = got.call.registry

\* a registered step was asked for in capitals with a list for its config
C19_Witness ==
    /\ Asked
    /\ got.call.name = <<"F", "O", "O">>
    /\ got.call.config.py = "list"
    /\ <<"f", "o", "o">> \in DOMAIN registry
    /\ FailedClean("TypeError")

(***************************************************************************)
(* Properties of a run and of the modifiers, continued.                    *)
(***************************************************************************)
\* C21: when an external process that a run launched exits with a non-zero
\* status, the run raises and returns no location, that process is the last
\* one the run launched, and the run launched that program only once.
C21_FailedProcessRaises ==
    Called =>
        \A i \in DOMAIN last.procs :
            ~last.procs[i].ok =>
                /\ last.result = "raised"
                /\ last.ret = NonePath
                /\ i = Len(last.procs)
                /\ \A j \in DOMAIN last.procs :
                        last.procs[j].name = last.procs[i].name => j = i

\* a run of madgraph whose third process, generate_events, failed after MG5
\* and edit_cards had exited with status 0
C21_Witness ==
    /\ Called
    /\ last.step = "madgraph"
    /\ Len(last.procs) = 3
    /\ last.procs[1].ok /\ last.procs[2].ok /\ ~last.procs[3].ok
    /\ last.result = "raised"

\* the dict at address b binds the keys of the dict at a and key, and binds
\* every key but key to what the dict at a binds it to; it is another dict
CopyBut(a, b, key) ==
    /\ b # a
    /\ DOMAIN heap[b] = DOMAIN heap[a] \cup {key}
    /\ \A k \in DOMAIN heap[a] \ {key} : heap[b][k] = heap[a][k]

\* the objects the caller holds: the ones it gave, and the configs it got
\* back with what they refer to
Held ==
    (1..3) \cup UNION {Reach(heap, yielded[i]) : i \in DOMAIN yielded}
           \cup UNION {Reach(heap, renamed[i].returned) : i \in DOMAIN renamed}

\* C22: every config that generate yields is a new dict that differs from
\* the config given in 'parameter_space' only, which it binds to a new dict;
\* every config that modify returns is a new dict that differs from the
\* one given in 'job_name' only; and no step of either changes an object
\* the caller holds: the config given, its parameter space, or a config
\* yielded or returned before.
C22_ModifiersCopy ==
    /\ [](/\ \A i \in DOMAIN yielded :
                /\ CopyBut(Input, yielded[i], "parameter_space")
                /\ heap[yielded[i]]["parameter_space"].ref \notin 1..3
                /\ \A j \in DOMAIN yielded : yielded[j] = yielded[i] => j = i
          /\ \A i \in DOMAIN renamed :
                CopyBut(renamed[i].given, renamed[i].returned, "job_name"))
    /\ [][\A a \in Held : heap'[a] = heap[a]]_vars

\* the expansion of a config that has a job name of its own has ended after
\* two points or more, and each point has been through modify
C22_Witness ==
    /\ frame.kind = "exhausted"
    /\ Len(yielded) >= 2
    /\ Len(renamed) = Len(yielded)
    /\ "job_name" \in DOMAIN heap[Input]
    /\ heap[renamed[1].returned]["job_name"] # heap[Input]["job_name"]

\* C23: every 'set run_card' line of the edit_cards script was made from a
\* numeric result of evaluate_formula; a result that is still a string, or
\* None, gives no line.
C23_OnlyNumbersWritten ==
    outcome.kind \in {"written", "raised"} =>
        \A i \in DOMAIN outcome.lines : IsNum(outcome.lines[i].evaluated)

\* the location that the last work-performing run of the step of the last
\* call returned for its point, NonePath if there was none
Original ==
    LET i == CHOOSE j \in DOMAIN StepOrder : StepOrder[j] = last.step
    IN  runner[last.point].work[i]

\* the pipeline has been entered again since the step of the last call did
\* its work, and the last call skipped
SkippedAfterWork == Called /\ last.skipped /\ Original # NonePath

\* C24: a run that skips returns the location that the step's run that did
\* the work returned for the point.
C24_SkipReturnsSameLocation ==
    SkippedAfterWork => last.ret = Original

\* C25: when a run has returned, is_done of its step is true for the point,
\* so that a run with skip_if_done set that follows it skips.
C25_ReturnedIsDone ==
    (Called /\ last.result = "returned") => IsDone(last.step, fs, Dir_(last.point))

=============================================================================
